---------------------------- MODULE Spec2Model ----------------------------
(***************************************************************************)
(* LoyalLoop: the LoyaltyToken ledger (ERC-20 with emission and coupons)   *)
(* and the SimpleDEX pool (flat-rate swap with manual liquidity counters). *)
(*                                                                         *)
(* Every external call is one atomic step: it either applies all of its    *)
(* effects or reverts and leaves the contracts' storage as it was.  The    *)
(* variable last records which call was made, by whom, and whether it      *)
(* returned or reverted.                                                   *)
(*                                                                         *)
(* Amounts are fixed-point integers.  The contracts scale by 10^18; the    *)
(* model scales by 10^Decimals so that every product stays inside the      *)
(* range of the model checker's integers.  All amounts of the model are    *)
(* written relative to WAD, the scale factor.                              *)
(***************************************************************************)
EXTENDS Integers, Sequences, FiniteSets, TLC

\* ------------------------------------------------------------------ bounds

\* number of decimals of the fixed-point scale (18 on chain)
Decimals == 2
\* number of transactions sent in one behaviour
MaxCalls == 3
\* number of coupons created in one behaviour
MaxCoupons == 2
\* block.timestamp ranges over the days 0..MaxDays after deployment
MaxDays == 1

\* --------------------------------------------------------------- constants

\* 10 ** decimals() in the ledger, 1e18 in the pool
WAD == 10 ^ Decimals

\* validityDays * 24 * 60 * 60
DAY == 24 * 60 * 60

\* basis-point denominator of the pool fee
BPS == 10000

\* feePercentage may not exceed 10%
MAX_FEE == 1000

\* createCoupon: discountPercent <= 100, validityDays <= 365
MAX_DISCOUNT == 100
MAX_VALIDITY == 365

\* constructor: 1000 * 10 ** decimals()
initialSupply == 1000 * WAD

\* scripts/deploy.js: parseEther("1000") tokens per native unit, 1% fee
DeployExchangeRate == 1000 * WAD
DeployFeePercentage == 100

\* ---------------------------------------------------------------- accounts

Deployer == "deployer"
Alice == "alice"
Dex == "dex"
Zero == "0x0"

\* externally owned accounts, the senders of transactions
Users == {Deployer, Alice}
\* every address that can hold tokens or native currency
Holders == {Deployer, Alice, Dex}
Addresses == Holders \cup {Zero}

\* block.timestamp at deployment
T0 == DAY

\* the timestamps explored: one second before, at, and after each whole day
TimePoints ==
    {t \in {T0 + k * DAY + e : k \in 0..MaxDays, e \in {-1, 0, 1}} : t >= T0}

CouponIds == 0..(MaxCoupons + 1)

VARIABLES
    \* ---- LoyaltyToken (ERC20, Ownable)
    balanceOf,      \* ERC20 _balances
    allowance,      \* ERC20 _allowances[owner][spender]
    totalSupply,    \* ERC20 _totalSupply
    ledgerOwner,    \* Ownable _owner of the ledger
    emissionRate,
    unitValue,
    totalMinted,
    totalBurned,
    nextCouponId,
    coupons,
    userCoupons,
    \* ---- SimpleDEX (Ownable, ReentrancyGuard)
    dexOwner,       \* Ownable _owner of the pool
    exchangeRate,
    feePercentage,
    ethLiquidity,
    tokenLiquidity,
    status,         \* ReentrancyGuard _status
    callback,       \* the account whose code runs inside a transfer made by the pool
    \* ---- chain
    ethBalance,     \* native-currency balance of every address
    now,            \* block.timestamp
    \* ---- observation
    last,           \* the latest call: operation, msg.sender, arguments, outcome
    createdAt,      \* per coupon id: block.timestamp and validityDays of its creation
    calls           \* number of transactions sent

ledgerVars ==
    <<balanceOf, allowance, totalSupply, ledgerOwner, emissionRate, unitValue,
      totalMinted, totalBurned, nextCouponId, coupons, userCoupons>>
dexVars == <<dexOwner, exchangeRate, feePercentage, ethLiquidity, tokenLiquidity>>
\* everything a transaction can change: contract storage and balances
storage == <<ledgerVars, dexVars, ethBalance, createdAt>>
\* the reentrancy guard and the call in progress
guardVars == <<status, callback>>
vars == <<ledgerVars, dexVars, guardVars, ethBalance, now, last, createdAt, calls>>

\* the default value of a Coupon slot of the mapping
NoCoupon ==
    [id |-> 0, owner |-> Zero, discountPercent |-> 0, tokensBurned |-> 0,
     expiryTime |-> 0, isUsed |-> FALSE, businessType |-> ""]

NoCreation == [time |-> 0, days |-> 0]

\* ------------------------------------------------------- call bookkeeping

\* a call without a return value
NoRet == << >>

Call(op, sender, args, ok, ret) ==
    [op |-> op, caller |-> sender, args |-> args, ok |-> ok, ret |-> ret]

\* one more call of the behaviour
Logged(op, sender, args, ok, ret) ==
    /\ calls < MaxCalls
    /\ last' = Call(op, sender, args, ok, ret)
    /\ calls' = calls + 1
    /\ UNCHANGED now

\* a call that runs to its end: a nonReentrant function has reset _status when
\* it returns, and the code that was running keeps running
Sent(op, sender, args, ok, ret) ==
    /\ Logged(op, sender, args, ok, ret)
    /\ UNCHANGED guardVars

\* the call reverts: storage is as before
Revert(op, sender, args) ==
    /\ Sent(op, sender, args, FALSE, NoRet)
    /\ UNCHANGED storage

\* the call returns nothing
Return(op, sender, args) == Sent(op, sender, args, TRUE, NoRet)

\* ------------------------------------------------------------ ERC20 base

\* Ownable.onlyOwner: owner() == msg.sender
onlyOwner(owner, sender) == sender = owner

\* ERC20._mint reverts for the zero address
MintReverts(account) == account = Zero

\* ERC20._mint(account, value): _totalSupply += value; _balances[account] += value
Mint(account, value) ==
    /\ totalSupply' = totalSupply + value
    /\ balanceOf' = [balanceOf EXCEPT ![account] = @ + value]

\* ERC20._burn(account, value): _balances[account] -= value; _totalSupply -= value
Burn(account, value) ==
    /\ balanceOf' = [balanceOf EXCEPT ![account] = @ - value]
    /\ totalSupply' = totalSupply - value

\* ERC20._transfer reverts: zero sender or receiver, or insufficient balance
MoveReverts(from, to, value) ==
    \/ from = Zero
    \/ to = Zero
    \/ balanceOf[from] < value

\* ERC20._update(from, to, value) between two non-zero addresses
Moved(bal, from, to, value) ==
    [a \in DOMAIN bal |->
        IF a = from /\ a = to THEN bal[a]
        ELSE IF a = from THEN bal[a] - value
        ELSE IF a = to THEN bal[a] + value
        ELSE bal[a]]

\* ERC20.transfer(to, value)
Transfer(sender, to, value) ==
    IF MoveReverts(sender, to, value)
    THEN Revert("transfer", sender, <<to, value>>)
    ELSE /\ balanceOf' = Moved(balanceOf, sender, to, value)
         /\ Return("transfer", sender, <<to, value>>)
         /\ UNCHANGED <<allowance, totalSupply, ledgerOwner, emissionRate, unitValue,
                        totalMinted, totalBurned, nextCouponId, coupons, userCoupons,
                        dexVars, ethBalance, createdAt>>

\* ERC20.approve(spender, value)
Approve(sender, spender, value) ==
    IF spender = Zero
    THEN Revert("approve", sender, <<spender, value>>)
    ELSE /\ allowance' = [allowance EXCEPT ![sender][spender] = value]
         /\ Return("approve", sender, <<spender, value>>)
         /\ UNCHANGED <<balanceOf, totalSupply, ledgerOwner, emissionRate, unitValue,
                        totalMinted, totalBurned, nextCouponId, coupons, userCoupons,
                        dexVars, ethBalance, createdAt>>

\* ERC20.transferFrom reverts: allowance too small, or the transfer reverts
TransferFromReverts(spender, from, to, value) ==
    \/ allowance[from][spender] < value
    \/ MoveReverts(from, to, value)

\* ERC20.transferFrom(from, to, value), called by spender
TransferFrom(sender, from, to, value) ==
    IF TransferFromReverts(sender, from, to, value)
    THEN Revert("transferFrom", sender, <<from, to, value>>)
    ELSE /\ allowance' = [allowance EXCEPT ![from][sender] = @ - value]
         /\ balanceOf' = Moved(balanceOf, from, to, value)
         /\ Return("transferFrom", sender, <<from, to, value>>)
         /\ UNCHANGED <<totalSupply, ledgerOwner, emissionRate, unitValue,
                        totalMinted, totalBurned, nextCouponId, coupons, userCoupons,
                        dexVars, ethBalance, createdAt>>

\* -------------------------------------------------------- LoyaltyToken

\* setEmissionRate(_rate) external onlyOwner
SetEmissionRate(sender, _rate) ==
    IF ~onlyOwner(ledgerOwner, sender)
    THEN Revert("setEmissionRate", sender, <<_rate>>)
    ELSE /\ emissionRate' = _rate
         /\ Return("setEmissionRate", sender, <<_rate>>)
         /\ UNCHANGED <<balanceOf, allowance, totalSupply, ledgerOwner, unitValue,
                        totalMinted, totalBurned, nextCouponId, coupons, userCoupons,
                        dexVars, ethBalance, createdAt>>

\* setUnitValue(_unit) external onlyOwner
SetUnitValue(sender, _unit) ==
    IF ~onlyOwner(ledgerOwner, sender)
    THEN Revert("setUnitValue", sender, <<_unit>>)
    ELSE /\ unitValue' = _unit
         /\ Return("setUnitValue", sender, <<_unit>>)
         /\ UNCHANGED <<balanceOf, allowance, totalSupply, ledgerOwner, emissionRate,
                        totalMinted, totalBurned, nextCouponId, coupons, userCoupons,
                        dexVars, ethBalance, createdAt>>

\* faulty variant of tokensWithDecimals: the emission rate is left out
tokensWithDecimals_noRate(amountSpent) == (amountSpent \div unitValue) * WAD

\* (amountSpent / unitValue) * emissionRate, scaled by 10 ** decimals();
\* evaluated only where unitValue is not zero
tokensWithDecimals(amountSpent) ==
    ((amountSpent \div unitValue) * emissionRate) * WAD

\* faulty variant of MintedAfter: the counter is overwritten, not increased
MintedAfter_overwritten(amount) == amount

\* faulty variant of MintedAfter: the counter grows by whole tokens, unscaled
MintedAfter_unscaled(amount) == totalMinted + amount \div WAD

\* totalMinted += tokensWithDecimals
MintedAfter(amount) == totalMinted + amount

\* faulty variant of BurnedAfter: the burn is not counted
BurnedAfter_uncounted(tokenAmount) == totalBurned

\* totalBurned += tokenAmount
BurnedAfter(tokenAmount) == totalBurned + tokenAmount

\* faulty variant of EarnTokensReverts: a mint of nothing is refused, as in
\* earnTokensForSelf
EarnTokensReverts_zeroMintRefused(sender, customer, amountSpent) ==
    \/ ~onlyOwner(ledgerOwner, sender)
    \/ unitValue = 0
    \/ MintReverts(customer)
    \/ ~((amountSpent \div unitValue) * emissionRate > 0)

\* earnTokens reverts: not the owner, division by zero, or mint to the zero address
EarnTokensReverts(sender, customer, amountSpent) ==
    \/ ~onlyOwner(ledgerOwner, sender)
    \/ unitValue = 0
    \/ MintReverts(customer)

\* earnTokens(customer, amountSpent) external onlyOwner
EarnTokens(sender, customer, amountSpent) ==
    IF EarnTokensReverts(sender, customer, amountSpent)
    THEN Revert("earnTokens", sender, <<customer, amountSpent>>)
    ELSE /\ Mint(customer, tokensWithDecimals(amountSpent))
         /\ totalMinted' = MintedAfter(tokensWithDecimals(amountSpent))
         /\ Return("earnTokens", sender, <<customer, amountSpent>>)
         /\ UNCHANGED <<allowance, ledgerOwner, emissionRate, unitValue,
                        totalBurned, nextCouponId, coupons, userCoupons,
                        dexVars, ethBalance, createdAt>>

\* earnTokensForSelf reverts: the two requires, division by zero, nothing to mint
EarnTokensForSelfReverts(sender, amountSpent) ==
    \/ ~(amountSpent > 0)
    \/ ~(amountSpent >= unitValue)
    \/ unitValue = 0
    \/ ~((amountSpent \div unitValue) * emissionRate > 0)

\* earnTokensForSelf(amountSpent) external
EarnTokensForSelf(sender, amountSpent) ==
    IF EarnTokensForSelfReverts(sender, amountSpent)
    THEN Revert("earnTokensForSelf", sender, <<amountSpent>>)
    ELSE /\ Mint(sender, tokensWithDecimals(amountSpent))
         /\ totalMinted' = MintedAfter(tokensWithDecimals(amountSpent))
         /\ Return("earnTokensForSelf", sender, <<amountSpent>>)
         /\ UNCHANGED <<allowance, ledgerOwner, emissionRate, unitValue,
                        totalBurned, nextCouponId, coupons, userCoupons,
                        dexVars, ethBalance, createdAt>>

\* faulty variant of CreateCouponReverts: the discount has no upper limit
CreateCouponReverts_anyDiscount(sender, tokenAmount, discountPercent, validityDays) ==
    \/ ~(tokenAmount > 0)
    \/ ~(discountPercent > 0)
    \/ ~(validityDays > 0 /\ validityDays <= MAX_VALIDITY)
    \/ ~(balanceOf[sender] >= tokenAmount)

\* createCoupon reverts: one of its four requires fails
CreateCouponReverts(sender, tokenAmount, discountPercent, validityDays) ==
    \/ ~(tokenAmount > 0)
    \/ ~(discountPercent > 0 /\ discountPercent <= MAX_DISCOUNT)
    \/ ~(validityDays > 0 /\ validityDays <= MAX_VALIDITY)
    \/ ~(balanceOf[sender] >= tokenAmount)

\* faulty variant of ExpiryTime: the validity is counted in hours
ExpiryTime_hours(validityDays) == now + validityDays * 60 * 60

\* block.timestamp + (validityDays * 24 * 60 * 60)
ExpiryTime(validityDays) == now + validityDays * DAY

\* faulty variant of NewCoupon: the contract's owner is recorded as the holder
NewCoupon_ownedByContractOwner(couponId, sender, tokenAmount, discountPercent, businessType, validityDays) ==
    [id |-> couponId,
     owner |-> ledgerOwner,
     discountPercent |-> discountPercent,
     tokensBurned |-> tokenAmount,
     expiryTime |-> ExpiryTime(validityDays),
     isUsed |-> FALSE,
     businessType |-> businessType]

\* the Coupon struct stored by createCoupon
NewCoupon(couponId, sender, tokenAmount, discountPercent, businessType, validityDays) ==
    [id |-> couponId,
     owner |-> sender,
     discountPercent |-> discountPercent,
     tokensBurned |-> tokenAmount,
     expiryTime |-> ExpiryTime(validityDays),
     isUsed |-> FALSE,
     businessType |-> businessType]

\* faulty variant of NextId: the counter is not advanced
NextId_stuck(couponId) == couponId

\* couponId = nextCouponId++
NextId(couponId) == couponId + 1

\* createCoupon(tokenAmount, discountPercent, businessType, validityDays) external
CreateCoupon(sender, tokenAmount, discountPercent, businessType, validityDays) ==
    IF CreateCouponReverts(sender, tokenAmount, discountPercent, validityDays)
    THEN Revert("createCoupon", sender, <<tokenAmount, discountPercent, businessType, validityDays>>)
    ELSE /\ nextCouponId <= MaxCoupons
         /\ Burn(sender, tokenAmount)
         /\ totalBurned' = BurnedAfter(tokenAmount)
         /\ nextCouponId' = NextId(nextCouponId)
         /\ coupons' = [coupons EXCEPT ![nextCouponId] =
                NewCoupon(nextCouponId, sender, tokenAmount, discountPercent,
                          businessType, validityDays)]
         /\ userCoupons' = [userCoupons EXCEPT ![sender] = Append(@, nextCouponId)]
         /\ createdAt' = [createdAt EXCEPT ![nextCouponId] =
                [time |-> now, days |-> validityDays]]
         /\ Sent("createCoupon", sender,
                 <<tokenAmount, discountPercent, businessType, validityDays>>,
                 TRUE, <<nextCouponId>>)
         /\ UNCHANGED <<allowance, ledgerOwner, emissionRate, unitValue,
                        totalMinted, dexVars, ethBalance>>

\* faulty variant of UseCouponReverts: the caller need not own the coupon
UseCouponReverts_anyCaller(sender, couponId) ==
    \/ ~(~coupons[couponId].isUsed)
    \/ ~(now <= coupons[couponId].expiryTime)

\* faulty variant of UseCouponReverts: the coupon expires one second early
UseCouponReverts_strict(sender, couponId) ==
    \/ ~(coupons[couponId].owner = sender)
    \/ ~(~coupons[couponId].isUsed)
    \/ ~(now < coupons[couponId].expiryTime)

\* useCoupon reverts: not the coupon's owner, already used, or expired
UseCouponReverts(sender, couponId) ==
    \/ ~(coupons[couponId].owner = sender)
    \/ ~(~coupons[couponId].isUsed)
    \/ ~(now <= coupons[couponId].expiryTime)

\* useCoupon(couponId) external
UseCoupon(sender, couponId) ==
    IF UseCouponReverts(sender, couponId)
    THEN Revert("useCoupon", sender, <<couponId>>)
    ELSE /\ coupons' = [coupons EXCEPT ![couponId].isUsed = TRUE]
         /\ Return("useCoupon", sender, <<couponId>>)
         /\ UNCHANGED <<balanceOf, allowance, totalSupply, ledgerOwner, emissionRate,
                        unitValue, totalMinted, totalBurned, nextCouponId, userCoupons,
                        dexVars, ethBalance, createdAt>>

\* faulty variant of isCouponValid: only the isUsed flag is consulted
isCouponValid_unusedOnly(couponId) == ~coupons[couponId].isUsed

\* faulty variant of isCouponValid: the isUsed flag is not consulted
isCouponValid_ignoringUse(couponId) ==
    /\ now <= coupons[couponId].expiryTime
    /\ coupons[couponId].owner # Zero

\* isCouponValid(couponId) external view
isCouponValid(couponId) ==
    /\ ~coupons[couponId].isUsed
    /\ now <= coupons[couponId].expiryTime
    /\ coupons[couponId].owner # Zero

\* getUserCoupons(user) external view
getUserCoupons(user) == userCoupons[user]

\* getTokenMetrics() external view
getTokenMetrics == <<totalMinted, totalBurned, totalSupply>>

\* Ownable.transferOwnership(newOwner) of the ledger
LedgerTransferOwnership(sender, newOwner) ==
    IF ~onlyOwner(ledgerOwner, sender) \/ newOwner = Zero
    THEN Revert("ledger.transferOwnership", sender, <<newOwner>>)
    ELSE /\ ledgerOwner' = newOwner
         /\ Return("ledger.transferOwnership", sender, <<newOwner>>)
         /\ UNCHANGED <<balanceOf, allowance, totalSupply, emissionRate, unitValue,
                        totalMinted, totalBurned, nextCouponId, coupons, userCoupons,
                        dexVars, ethBalance, createdAt>>

\* ------------------------------------------------------------- SimpleDEX

\* ReentrancyGuard: the two values of _status
NOT_ENTERED == "NOT_ENTERED"
ENTERED == "ENTERED"

\* modifier nonReentrant: reverts when _status is ENTERED
nonReentrantReverts == status = ENTERED

\* swapEthForTokens: tokenAmount = (msg.value * exchangeRate) / 1e18
SwapTokenAmount(value) == (value * exchangeRate) \div WAD
\* faulty variant of SwapTokenFee: the fee is taken on the native amount sent
SwapTokenFee_onInput(value) == (value * feePercentage) \div BPS

\* swapEthForTokens: fee = (tokenAmount * feePercentage) / 10000
SwapTokenFee(value) == (SwapTokenAmount(value) * feePercentage) \div BPS
\* faulty variant of tokensToSend: the fee is not deducted
tokensToSend_noFee(value) == SwapTokenAmount(value)

\* swapEthForTokens: tokensToSend = tokenAmount - fee
tokensToSend(value) == SwapTokenAmount(value) - SwapTokenFee(value)

\* faulty variant of SwapEthForTokensReverts: the liquidity require is missing
SwapEthForTokensReverts_noLiquidityCheck(sender, value) ==
    \/ nonReentrantReverts
    \/ ~(value > 0)
    \/ MoveReverts(Dex, sender, tokensToSend(value))

\* swapEthForTokens reverts: re-entered, no value, too little token liquidity,
\* or the ledger's transfer from the pool reverts
SwapEthForTokensReverts(sender, value) ==
    \/ nonReentrantReverts
    \/ ~(value > 0)
    \/ ~(tokenLiquidity >= tokensToSend(value))
    \/ MoveReverts(Dex, sender, tokensToSend(value))

\* faulty variant of TokenLiquidityAfterSwap: the counter keeps the fee out
TokenLiquidityAfterSwap_feeDropped(value) == tokenLiquidity - SwapTokenAmount(value)

\* swapEthForTokens: tokenLiquidity -= tokensToSend
TokenLiquidityAfterSwap(value) == tokenLiquidity - tokensToSend(value)

\* swapEthForTokens() external payable nonReentrant
SwapEthForTokens(sender, value) ==
    /\ ethBalance[sender] >= value
    /\ IF SwapEthForTokensReverts(sender, value)
       THEN Revert("swapEthForTokens", sender, <<value>>)
       ELSE /\ ethBalance' = Moved(ethBalance, sender, Dex, value)
            /\ ethLiquidity' = ethLiquidity + value
            /\ tokenLiquidity' = TokenLiquidityAfterSwap(value)
            /\ balanceOf' = Moved(balanceOf, Dex, sender, tokensToSend(value))
            /\ Return("swapEthForTokens", sender, <<value>>)
            /\ UNCHANGED <<allowance, totalSupply, ledgerOwner, emissionRate, unitValue,
                           totalMinted, totalBurned, nextCouponId, coupons, userCoupons,
                           dexOwner, exchangeRate, feePercentage, createdAt>>

\* faulty variant of SwapEthAmount: one token pays one unit, the rate is ignored
SwapEthAmount_atPar(_tokenAmount) == _tokenAmount

\* swapTokensForEth: ethAmount = (_tokenAmount * 1e18) / exchangeRate
SwapEthAmount(_tokenAmount) == (_tokenAmount * WAD) \div exchangeRate
\* swapTokensForEth: fee = (ethAmount * feePercentage) / 10000
SwapEthFee(_tokenAmount) == (SwapEthAmount(_tokenAmount) * feePercentage) \div BPS
\* swapTokensForEth: ethToSend = ethAmount - fee
ethToSend(_tokenAmount) == SwapEthAmount(_tokenAmount) - SwapEthFee(_tokenAmount)

\* faulty variant of SwapTokensForEthReverts: the result of transferFrom is
\* not required
SwapTokensForEthReverts_liquidityOnly(sender, _tokenAmount) ==
    \/ nonReentrantReverts
    \/ ~(_tokenAmount > 0)
    \/ exchangeRate = 0
    \/ ~(ethLiquidity >= ethToSend(_tokenAmount))
    \/ ethBalance[Dex] < ethToSend(_tokenAmount)

\* swapTokensForEth reverts: re-entered, no amount, division by zero, too
\* little native liquidity, transferFrom reverts, or the pool cannot pay
SwapTokensForEthReverts(sender, _tokenAmount) ==
    \/ nonReentrantReverts
    \/ ~(_tokenAmount > 0)
    \/ exchangeRate = 0
    \/ ~(ethLiquidity >= ethToSend(_tokenAmount))
    \/ TransferFromReverts(Dex, sender, Dex, _tokenAmount)
    \/ ethBalance[Dex] < ethToSend(_tokenAmount)

\* what a swapTokensForEth that does not revert writes
SwapTokensForEthEffects(sender, _tokenAmount) ==
    /\ allowance' = [allowance EXCEPT ![sender][Dex] = @ - _tokenAmount]
    /\ balanceOf' = Moved(balanceOf, sender, Dex, _tokenAmount)
    /\ tokenLiquidity' = tokenLiquidity + _tokenAmount
    /\ ethLiquidity' = ethLiquidity - ethToSend(_tokenAmount)
    /\ ethBalance' = Moved(ethBalance, Dex, sender, ethToSend(_tokenAmount))
    /\ UNCHANGED <<totalSupply, ledgerOwner, emissionRate, unitValue,
                   totalMinted, totalBurned, nextCouponId, coupons, userCoupons,
                   dexOwner, exchangeRate, feePercentage, createdAt>>

\* swapTokensForEth(_tokenAmount) external nonReentrant
SwapTokensForEth(sender, _tokenAmount) ==
    IF SwapTokensForEthReverts(sender, _tokenAmount)
    THEN Revert("swapTokensForEth", sender, <<_tokenAmount>>)
    ELSE /\ SwapTokensForEthEffects(sender, _tokenAmount)
         /\ Return("swapTokensForEth", sender, <<_tokenAmount>>)

\* swapTokensForEth called by a contract: the function's last statement,
\* payable(msg.sender).transfer(ethToSend), runs the caller's receive() while
\* _status is ENTERED
SwapTokensForEthCallingBack(sender, _tokenAmount) ==
    /\ callback = Zero
    /\ ~SwapTokensForEthReverts(sender, _tokenAmount)
    /\ SwapTokensForEthEffects(sender, _tokenAmount)
    /\ Logged("swapTokensForEth", sender, <<_tokenAmount>>, TRUE, NoRet)
    /\ status' = ENTERED
    /\ callback' = sender

\* receive() returns, the transfer is over, nonReentrant resets _status
CallbackReturns ==
    /\ callback # Zero
    /\ callback' = Zero
    /\ status' = NOT_ENTERED
    /\ UNCHANGED <<storage, now, last, calls>>

\* addLiquidity reverts: no value, no tokens, or transferFrom reverts
AddLiquidityReverts(sender, value, _tokenAmount) ==
    \/ ~(value > 0)
    \/ ~(_tokenAmount > 0)
    \/ TransferFromReverts(Dex, sender, Dex, _tokenAmount)

\* addLiquidity(_tokenAmount) external payable
AddLiquidity(sender, value, _tokenAmount) ==
    /\ ethBalance[sender] >= value
    /\ IF AddLiquidityReverts(sender, value, _tokenAmount)
       THEN Revert("addLiquidity", sender, <<value, _tokenAmount>>)
       ELSE /\ ethBalance' = Moved(ethBalance, sender, Dex, value)
            /\ allowance' = [allowance EXCEPT ![sender][Dex] = @ - _tokenAmount]
            /\ balanceOf' = Moved(balanceOf, sender, Dex, _tokenAmount)
            /\ ethLiquidity' = ethLiquidity + value
            /\ tokenLiquidity' = tokenLiquidity + _tokenAmount
            /\ Return("addLiquidity", sender, <<value, _tokenAmount>>)
            /\ UNCHANGED <<totalSupply, ledgerOwner, emissionRate, unitValue,
                           totalMinted, totalBurned, nextCouponId, coupons, userCoupons,
                           dexOwner, exchangeRate, feePercentage, createdAt>>

\* faulty variant of RemoveLiquidityReverts: the token counter is not checked
RemoveLiquidityReverts_tokenUnchecked(sender, _ethAmount, _tokenAmount) ==
    \/ ~onlyOwner(dexOwner, sender)
    \/ ~(_ethAmount <= ethLiquidity)
    \/ ethBalance[Dex] < _ethAmount
    \/ MoveReverts(Dex, sender, _tokenAmount)

\* removeLiquidity reverts: not the owner, a counter too small, or the pool
\* cannot pay the native currency or the tokens
RemoveLiquidityReverts(sender, _ethAmount, _tokenAmount) ==
    \/ ~onlyOwner(dexOwner, sender)
    \/ ~(_ethAmount <= ethLiquidity)
    \/ ~(_tokenAmount <= tokenLiquidity)
    \/ ethBalance[Dex] < _ethAmount
    \/ MoveReverts(Dex, sender, _tokenAmount)

\* removeLiquidity(_ethAmount, _tokenAmount) external onlyOwner
RemoveLiquidity(sender, _ethAmount, _tokenAmount) ==
    IF RemoveLiquidityReverts(sender, _ethAmount, _tokenAmount)
    THEN Revert("removeLiquidity", sender, <<_ethAmount, _tokenAmount>>)
    ELSE /\ ethLiquidity' = ethLiquidity - _ethAmount
         /\ tokenLiquidity' = tokenLiquidity - _tokenAmount
         /\ ethBalance' = Moved(ethBalance, Dex, sender, _ethAmount)
         /\ balanceOf' = Moved(balanceOf, Dex, sender, _tokenAmount)
         /\ Return("removeLiquidity", sender, <<_ethAmount, _tokenAmount>>)
         /\ UNCHANGED <<allowance, totalSupply, ledgerOwner, emissionRate, unitValue,
                        totalMinted, totalBurned, nextCouponId, coupons, userCoupons,
                        dexOwner, exchangeRate, feePercentage, createdAt>>

\* updateExchangeRate(_newRate) external onlyOwner
UpdateExchangeRate(sender, _newRate) ==
    IF ~onlyOwner(dexOwner, sender) \/ ~(_newRate > 0)
    THEN Revert("updateExchangeRate", sender, <<_newRate>>)
    ELSE /\ exchangeRate' = _newRate
         /\ Return("updateExchangeRate", sender, <<_newRate>>)
         /\ UNCHANGED <<ledgerVars, dexOwner, feePercentage, ethLiquidity,
                        tokenLiquidity, ethBalance, createdAt>>

\* updateFee(_newFee) external onlyOwner
UpdateFee(sender, _newFee) ==
    IF ~onlyOwner(dexOwner, sender) \/ ~(_newFee <= MAX_FEE)
    THEN Revert("updateFee", sender, <<_newFee>>)
    ELSE /\ feePercentage' = _newFee
         /\ Return("updateFee", sender, <<_newFee>>)
         /\ UNCHANGED <<ledgerVars, dexOwner, exchangeRate, ethLiquidity,
                        tokenLiquidity, ethBalance, createdAt>>

\* getDEXStatus() external view
getDEXStatus == <<ethLiquidity, tokenLiquidity, exchangeRate, feePercentage>>

\* faulty variant of calculateSwap: constant-product pricing, the output
\* depends on the pool's liquidity
calculateSwap_constantProduct(_inputAmount, _ethToToken) ==
    IF _ethToToken
    THEN LET tokenAmount == (_inputAmount * tokenLiquidity) \div (ethLiquidity + _inputAmount + 1)
             feeAmount == (tokenAmount * feePercentage) \div BPS
         IN  [outputAmount |-> tokenAmount - feeAmount, feeAmount |-> feeAmount]
    ELSE LET ethAmount == (_inputAmount * ethLiquidity) \div (tokenLiquidity + _inputAmount + 1)
             feeAmount == (ethAmount * feePercentage) \div BPS
         IN  [outputAmount |-> ethAmount - feeAmount, feeAmount |-> feeAmount]

\* faulty variant of calculateSwap: the fee is taken on the input amount
calculateSwap_feeOnInput(_inputAmount, _ethToToken) ==
    IF _ethToToken
    THEN LET tokenAmount == (_inputAmount * exchangeRate) \div WAD
             feeAmount == (_inputAmount * feePercentage) \div BPS
         IN  [outputAmount |-> tokenAmount - feeAmount, feeAmount |-> feeAmount]
    ELSE LET ethAmount == (_inputAmount * WAD) \div exchangeRate
             feeAmount == (_inputAmount * feePercentage) \div BPS
         IN  [outputAmount |-> ethAmount - feeAmount, feeAmount |-> feeAmount]

\* calculateSwap(_inputAmount, _ethToToken) external view:
\* returns (outputAmount, feeAmount)
calculateSwap(_inputAmount, _ethToToken) ==
    IF _ethToToken
    THEN LET tokenAmount == (_inputAmount * exchangeRate) \div WAD
             feeAmount == (tokenAmount * feePercentage) \div BPS
         IN  [outputAmount |-> tokenAmount - feeAmount, feeAmount |-> feeAmount]
    ELSE LET ethAmount == (_inputAmount * WAD) \div exchangeRate
             feeAmount == (ethAmount * feePercentage) \div BPS
         IN  [outputAmount |-> ethAmount - feeAmount, feeAmount |-> feeAmount]

\* a call of calculateSwap: storage is untouched, the pair is returned
CalculateSwap(sender, _inputAmount, _ethToToken) ==
    /\ exchangeRate # 0
    /\ Sent("calculateSwap", sender, <<_inputAmount, _ethToToken>>, TRUE,
            <<calculateSwap(_inputAmount, _ethToToken).outputAmount,
              calculateSwap(_inputAmount, _ethToToken).feeAmount>>)
    /\ UNCHANGED storage

\* faulty variant of EmergencyWithdrawReverts: the onlyOwner modifier is missing
EmergencyWithdrawReverts_open(sender) == FALSE

\* emergencyWithdraw reverts: not the owner
EmergencyWithdrawReverts(sender) == ~onlyOwner(dexOwner, sender)

\* faulty variant of CountersAfterEmergency: the counters are left as they were
CountersAfterEmergency_kept == [eth |-> ethLiquidity, token |-> tokenLiquidity]

\* emergencyWithdraw: ethLiquidity = 0; tokenLiquidity = 0
CountersAfterEmergency == [eth |-> 0, token |-> 0]

\* faulty variant of EmergencySweep: the counted liquidity is swept
EmergencySweep_counted == [eth |-> ethLiquidity, token |-> tokenLiquidity]

\* emergencyWithdraw: ethBalance = address(this).balance;
\* tokenBalance = loyalToken.balanceOf(address(this))
EmergencySweep == [eth |-> ethBalance[Dex], token |-> balanceOf[Dex]]

\* emergencyWithdraw() external onlyOwner: the pool's whole native and token
\* balances go to owner(), both counters are zeroed
EmergencyWithdraw(sender) ==
    IF EmergencyWithdrawReverts(sender)
    THEN Revert("emergencyWithdraw", sender, << >>)
    ELSE /\ ethBalance' = Moved(ethBalance, Dex, dexOwner, EmergencySweep.eth)
         /\ balanceOf' = Moved(balanceOf, Dex, dexOwner, EmergencySweep.token)
         /\ ethLiquidity' = CountersAfterEmergency.eth
         /\ tokenLiquidity' = CountersAfterEmergency.token
         /\ Return("emergencyWithdraw", sender, << >>)
         /\ UNCHANGED <<allowance, totalSupply, ledgerOwner, emissionRate, unitValue,
                        totalMinted, totalBurned, nextCouponId, coupons, userCoupons,
                        dexOwner, exchangeRate, feePercentage, createdAt>>

\* Ownable.transferOwnership(newOwner) of the pool
DexTransferOwnership(sender, newOwner) ==
    IF ~onlyOwner(dexOwner, sender) \/ newOwner = Zero
    THEN Revert("dex.transferOwnership", sender, <<newOwner>>)
    ELSE /\ dexOwner' = newOwner
         /\ Return("dex.transferOwnership", sender, <<newOwner>>)
         /\ UNCHANGED <<ledgerVars, exchangeRate, feePercentage, ethLiquidity,
                        tokenLiquidity, ethBalance, createdAt>>

\* ----------------------------------------------------------------- chain

\* a later block: block.timestamp moves forward
Tick(t) ==
    /\ t > now
    /\ now' = t
    /\ UNCHANGED <<storage, guardVars, last, calls>>

\* ------------------------------------------------------------ deployment

\* faulty variant of ConstructorReverts: the rate is not required to be positive
ConstructorReverts_anyRate(_exchangeRate, _feePercentage) ==
    ~(_feePercentage <= MAX_FEE)

\* faulty variant of ConstructorReverts: the fee is not capped
ConstructorReverts_noFeeCap(_exchangeRate, _feePercentage) == ~(_exchangeRate > 0)

\* SimpleDEX's constructor reverts: rate not positive or fee above the cap
ConstructorReverts(_exchangeRate, _feePercentage) ==
    \/ ~(_exchangeRate > 0)
    \/ ~(_feePercentage <= MAX_FEE)

\* LoyaltyToken() and SimpleDEX(token, _exchangeRate, _feePercentage), both
\* deployed by Deployer
Deployed(_exchangeRate, _feePercentage) ==
    /\ balanceOf = [a \in Holders |-> IF a = Deployer THEN initialSupply ELSE 0]
    /\ allowance = [a \in Holders |-> [b \in Holders |-> 0]]
    /\ totalSupply = initialSupply
    /\ ledgerOwner = Deployer
    /\ emissionRate = 1
    /\ unitValue = 3
    /\ totalMinted = initialSupply
    /\ totalBurned = 0
    /\ nextCouponId = 1
    /\ coupons = [i \in CouponIds |-> NoCoupon]
    /\ userCoupons = [a \in Holders |-> << >>]
    /\ dexOwner = Deployer
    /\ exchangeRate = _exchangeRate
    /\ feePercentage = _feePercentage
    /\ ethLiquidity = 0
    /\ tokenLiquidity = 0
    /\ status = NOT_ENTERED
    /\ callback = Zero
    /\ ethBalance = [a \in Holders |-> IF a = Dex THEN 0 ELSE WAD]
    /\ now = T0
    /\ last = Call("constructor", Deployer, <<_exchangeRate, _feePercentage>>, TRUE, NoRet)
    /\ createdAt = [i \in CouponIds |-> NoCreation]
    /\ calls = 0

\* scripts/deploy.js: SimpleDEX.deploy(tokenAddress, parseEther("1000"), 100)
Init == Deployed(DeployExchangeRate, DeployFeePercentage)

\* --------------------------------------------------------------- emission

EmissionRates == {0, 1, 2}
UnitValues == {0, 3, 4}
AmountsSpent == {0, 2, 3, 10}
Customers == {Alice, Dex, Zero}

\* the emission parameters and the two mint functions
NextEmission ==
    \/ \E c \in Users, r \in EmissionRates : SetEmissionRate(c, r)
    \/ \E c \in Users, u \in UnitValues : SetUnitValue(c, u)
    \/ \E c \in Users, to \in Customers, a \in AmountsSpent : EarnTokens(c, to, a)
    \/ \E c \in Users, a \in AmountsSpent : EarnTokensForSelf(c, a)

SpecEmission == Init /\ [][NextEmission]_vars

\* ---------------------------------------------------------------- coupons

\* createCoupon arguments: accepted ones, and one violation of each require
CouponInputs ==
    { <<WAD, 1, "retail", 1>>,
      <<(3 * WAD) \div 2, MAX_DISCOUNT, "restaurant", 1>>,
      <<WAD, 50, "retail", MAX_VALIDITY>>,
      <<0, 1, "retail", 1>>,
      <<WAD, 0, "retail", 1>>,
      <<WAD, MAX_DISCOUNT + 1, "retail", 1>>,
      <<WAD, 1, "retail", 0>>,
      <<WAD, 1, "retail", MAX_VALIDITY + 1>>,
      <<initialSupply + WAD, 1, "retail", 1>> }

\* the coupon lifecycle: tokens are earned or received, burned for coupons,
\* coupons are used, time passes
NextCoupon ==
    \/ \E c \in Users : EarnTokensForSelf(c, 3)
    \/ \E c \in Users : Transfer(c, Alice, WAD)
    \/ \E c \in Users, i \in CouponInputs : CreateCoupon(c, i[1], i[2], i[3], i[4])
    \/ \E c \in Users, i \in CouponIds : UseCoupon(c, i)
    \/ \E t \in TimePoints : Tick(t)

SpecCoupon == Init /\ [][NextCoupon]_vars

\* ---------------------------------------------------- the pool on its own

\* native amounts: nothing, 0.01, 0.5 and 1 unit
EthAmounts == {0, WAD \div 100, WAD \div 2}
\* token amounts: nothing, 10 and 500 tokens
TokenAmounts == {0, 10 * WAD, 500 * WAD}
ApproveAmounts == {500 * WAD, 1000 * WAD}
Fees == {0, MAX_FEE, MAX_FEE + 1}
ExchangeRates == {0, 300 * WAD}

NextDex ==
    \/ \E c \in Users, a \in ApproveAmounts : Approve(c, Dex, a)
    \/ \E c \in Users, to \in {Alice, Dex}, a \in TokenAmounts : Transfer(c, to, a)
    \/ \E c \in Users, v \in EthAmounts : SwapEthForTokens(c, v)
    \/ \E c \in Users, a \in TokenAmounts : SwapTokensForEth(c, a)
    \/ \E c \in Users, v \in EthAmounts, a \in TokenAmounts : AddLiquidity(c, v, a)
    \/ \E c \in Users, v \in EthAmounts, a \in TokenAmounts : RemoveLiquidity(c, v, a)
    \/ \E c \in Users, r \in ExchangeRates : UpdateExchangeRate(c, r)
    \/ \E c \in Users, f \in Fees : UpdateFee(c, f)
    \/ \E c \in Users : EmergencyWithdraw(c)

SpecDex == Init /\ [][NextDex]_vars

\* ------------------------------------------------------ the whole system

\* every operation of both contracts, each with few arguments
Next ==
    \/ \E c \in Users : SetEmissionRate(c, 2)
    \/ \E c \in Users : SetUnitValue(c, 4)
    \/ \E c \in Users, to \in {Alice, Dex} : EarnTokens(c, to, 10)
    \/ \E c \in Users : EarnTokensForSelf(c, 3)
    \/ \E c \in Users : CreateCoupon(c, WAD, 1, "retail", 1)
    \/ \E c \in Users : UseCoupon(c, 1)
    \/ \E c \in Users : LedgerTransferOwnership(c, Alice)
    \/ \E c \in Users, to \in {Alice, Dex} : Transfer(c, to, 10 * WAD)
    \/ \E c \in Users, sp \in {Alice, Dex}, a \in ApproveAmounts : Approve(c, sp, a)
    \/ \E c \in Users : TransferFrom(c, Deployer, Alice, 10 * WAD)
    \/ \E c \in Users : SwapEthForTokens(c, WAD \div 100)
    \/ \E c \in Users : SwapTokensForEth(c, 10 * WAD)
    \/ \E c \in Users : AddLiquidity(c, WAD \div 2, 500 * WAD)
    \/ \E c \in Users : RemoveLiquidity(c, WAD \div 100, 10 * WAD)
    \/ \E c \in Users : UpdateExchangeRate(c, 300 * WAD)
    \/ \E c \in Users : UpdateFee(c, 0)
    \/ \E c \in Users : EmergencyWithdraw(c)
    \/ \E c \in Users : DexTransferOwnership(c, Alice)

Spec == Init /\ [][Next]_vars

\* ------------------------------------------------------- swap previews

\* constructor arguments of the pool: rates, and fees up to and above the cap
ConstructorRates == {0, 333, 300 * WAD, 1000 * WAD}
ConstructorFees == {0, 100, 250, MAX_FEE, MAX_FEE + 1}

\* inputs of calculateSwap: from one base unit up to one whole unit
SwapInputs == {0, 1, 7, WAD \div 2, WAD}

\* a pool whose constructor did not revert
InitCalc ==
    \E r \in ConstructorRates, f \in ConstructorFees :
        /\ ~ConstructorReverts(r, f)
        /\ Deployed(r, f)

\* previews of swaps at every rate and fee the owner can set
NextCalc ==
    \/ \E c \in Users, x \in SwapInputs, d \in BOOLEAN : CalculateSwap(c, x, d)
    \/ \E c \in Users, r \in ConstructorRates : UpdateExchangeRate(c, r)
    \/ \E c \in Users, f \in ConstructorFees : UpdateFee(c, f)

SpecCalc == InitCalc /\ [][NextCalc]_vars

\* ------------------------------------------------------------ reentrancy

\* a pool constructed with the given rate and fee, after
\* scripts/add-initial-liquidity.js: Deployer approved 500 tokens and added
\* them with 0.5 native units
Funded(_exchangeRate, _feePercentage) ==
    /\ balanceOf = [a \in Holders |-> IF a = Alice THEN 0 ELSE 500 * WAD]
    /\ allowance = [a \in Holders |-> [b \in Holders |-> 0]]
    /\ totalSupply = initialSupply
    /\ ledgerOwner = Deployer
    /\ emissionRate = 1
    /\ unitValue = 3
    /\ totalMinted = initialSupply
    /\ totalBurned = 0
    /\ nextCouponId = 1
    /\ coupons = [i \in CouponIds |-> NoCoupon]
    /\ userCoupons = [a \in Holders |-> << >>]
    /\ dexOwner = Deployer
    /\ exchangeRate = _exchangeRate
    /\ feePercentage = _feePercentage
    /\ ethLiquidity = WAD \div 2
    /\ tokenLiquidity = 500 * WAD
    /\ status = NOT_ENTERED
    /\ callback = Zero
    /\ ethBalance = [a \in Holders |-> IF a = Alice THEN WAD ELSE WAD \div 2]
    /\ now = T0
    /\ last = Call("addLiquidity", Deployer, <<WAD \div 2, 500 * WAD>>, TRUE, NoRet)
    /\ createdAt = [i \in CouponIds |-> NoCreation]
    /\ calls = 0

\* the funded pool of scripts/deploy.js
InitFunded == Funded(DeployExchangeRate, DeployFeePercentage)

\* transactions of accounts while no call is in progress, and the calls a
\* contract makes into the pool from its receive() while the pool pays it
NextReentrancy ==
    \/ \E c \in Users, a \in ApproveAmounts : callback = Zero /\ Approve(c, Dex, a)
    \/ \E c \in Users, to \in Users : callback = Zero /\ Transfer(c, to, 10 * WAD)
    \/ \E c \in Users, a \in TokenAmounts : SwapTokensForEthCallingBack(c, a)
    \/ \E v \in EthAmounts : callback # Zero /\ SwapEthForTokens(callback, v)
    \/ \E a \in TokenAmounts : callback # Zero /\ SwapTokensForEth(callback, a)
    \/ \E v \in EthAmounts, a \in TokenAmounts :
          callback # Zero /\ AddLiquidity(callback, v, a)
    \/ \E v \in EthAmounts, a \in TokenAmounts :
          callback # Zero /\ RemoveLiquidity(callback, v, a)
    \/ callback # Zero /\ EmergencyWithdraw(callback)
    \/ CallbackReturns

SpecReentrancy == InitFunded /\ [][NextReentrancy]_vars

\* --------------------------------------------------------------- trading

\* rates and fees of the pools traded on
TradeRates == {333, 300 * WAD, 1000 * WAD}
TradeFees == {0, DeployFeePercentage, MAX_FEE}

\* what the latest call paid out, if it was a successful swap
TokenProceeds ==
    IF last.op = "swapEthForTokens" /\ last.ok
    THEN {tokensToSend(last.args[1])} ELSE {}
EthProceeds ==
    IF last.op = "swapTokensForEth" /\ last.ok
    THEN {ethToSend(last.args[1])} ELSE {}

InitTrade ==
    \E r \in TradeRates, f \in TradeFees :
        /\ ~ConstructorReverts(r, f)
        /\ Funded(r, f)

\* swaps in both directions at a fixed rate and fee, their previews, and
\* swapping back what a swap has just paid out
NextTrade ==
    \/ \E c \in Users, a \in ApproveAmounts : Approve(c, Dex, a)
    \/ \E c \in Users, v \in EthAmounts \cup EthProceeds : SwapEthForTokens(c, v)
    \/ \E c \in Users, a \in TokenAmounts \cup TokenProceeds : SwapTokensForEth(c, a)
    \/ \E c \in Users, x \in SwapInputs, d \in BOOLEAN : CalculateSwap(c, x, d)

SpecTrade == InitTrade /\ [][NextTrade]_vars

\* ================================================================ claims

\* a step that is a transaction (time passing is not one)
IsCall == calls' # calls

\* the tokens held by the three holders together
SumOfBalances == balanceOf[Deployer] + balanceOf[Alice] + balanceOf[Dex]

\* C1. Supply conservation: in every state reachable by any calls of the
\* ledger and the pool, successful or reverted, totalMinted - totalBurned
\* equals the ledger's totalSupply().
C1_SupplyConservation == totalMinted - totalBurned = totalSupply

\* C1 witness: tokens were minted after deployment and tokens were burned
C1_Witness ==
    /\ totalMinted > initialSupply
    /\ totalBurned > 0
    /\ totalSupply # initialSupply

\* C2. Balance conservation across ledger and pool: the balances of the
\* accounts other than the pool plus the pool's token balance equal
\* totalMinted - totalBurned in every reachable state.
C2_BalanceConservation == SumOfBalances = totalMinted - totalBurned

\* C2 witness: the pool holds tokens, a swap has paid tokens out of it, and
\* tokens have been minted since deployment
C2_Witness ==
    /\ balanceOf[Dex] > 0
    /\ last.op = "swapEthForTokens"
    /\ last.ok
    /\ balanceOf[Alice] > 0

OwnerOnlyLedger == {"setEmissionRate", "setUnitValue", "earnTokens"}
OwnerOnlyDex == {"removeLiquidity", "updateExchangeRate", "updateFee", "emergencyWithdraw"}

\* C3. Non-owner rejection: a call of an owner-restricted function of the
\* ledger or of the pool by anyone but the current owner reverts and leaves
\* balances, counters, parameters and coupons as they were.
C3_NonOwnerRejected ==
    [][(/\ IsCall
        /\ \/ last'.op \in OwnerOnlyLedger /\ last'.caller # ledgerOwner
           \/ last'.op \in OwnerOnlyDex /\ last'.caller # dexOwner)
       => (~last'.ok /\ UNCHANGED storage)]_vars

\* C3 witness: the pool holds liquidity and someone who is not its owner has
\* called emergencyWithdraw
C3_Witness ==
    /\ last.op = "emergencyWithdraw"
    /\ last.caller # dexOwner
    /\ ~last.ok
    /\ ethLiquidity > 0
    /\ balanceOf[Dex] > 0

\* C4. Liquidity exhaustion: a swapEthForTokens whose tokensToSend exceeds
\* tokenLiquidity, and a swapTokensForEth whose ethToSend exceeds
\* ethLiquidity, reverts and leaves both counters and all balances unchanged.
C4_LiquidityExhaustion ==
    [][(/\ IsCall
        /\ \/ /\ last'.op = "swapEthForTokens"
              /\ tokensToSend(last'.args[1]) > tokenLiquidity
           \/ /\ last'.op = "swapTokensForEth"
              /\ ethToSend(last'.args[1]) > ethLiquidity)
       => (~last'.ok /\ UNCHANGED storage)]_vars

\* C4 witness: the counter is below what the swap would pay out, although the
\* pool's real token balance would have covered the payout
C4_Witness ==
    /\ last.op = "swapEthForTokens"
    /\ ~last.ok
    /\ tokensToSend(last.args[1]) > tokenLiquidity
    /\ balanceOf[Dex] >= tokensToSend(last.args[1])

C6_SwapFeeArithmetic ==
    (last.op = "calculateSwap" /\ last.args[2]) =>
        LET x == last.args[1]
            out == last.ret[1]
            fee == last.ret[2]
            gross == out + fee
        IN  /\ gross * WAD <= x * exchangeRate
            /\ x * exchangeRate < (gross + 1) * WAD
            /\ fee * BPS <= gross * feePercentage
            /\ gross * feePercentage < (fee + 1) * BPS
            /\ out >= 0
            /\ (exchangeRate = 1000 * WAD /\ feePercentage = 100 /\ x = WAD) =>
                   (out = 990 * WAD /\ fee = 10 * WAD)

\* C6 witness: the preview of one native unit at the deployed rate and fee
C6_Witness ==
    /\ exchangeRate = 1000 * WAD
    /\ feePercentage = 100
    /\ last = Call("calculateSwap", Alice, <<WAD, TRUE>>, TRUE, <<990 * WAD, 10 * WAD>>)

\* C7. Coupon validity monotonicity: once a coupon's isUsed flag is true it
\* stays true and isCouponValid is false for that id, in every later state,
\* whether or not the coupon has expired.
C7_UsedCouponStaysInvalid ==
    [][\A i \in CouponIds :
          coupons[i].isUsed =>
              /\ ~isCouponValid(i)
              /\ coupons'[i].isUsed
              /\ ~(isCouponValid(i))']_vars

\* C7 witness: coupon 1 was used, later another coupon was created, and
\* coupon 1 has not expired
C7_Witness ==
    /\ coupons[1].isUsed
    /\ now <= coupons[1].expiryTime
    /\ last.op = "createCoupon"
    /\ last.ok

\* C8. Coupon expiry boundary: an unused coupon created at time t with
\* validityDays = d is valid, and useCoupon by its owner succeeds, at every
\* time now <= t + d * 86400 (the boundary included); it is invalid, and
\* useCoupon reverts, at every later time.
C8_ExpiryBoundary ==
    /\ [](\A i \in CouponIds :
            (coupons[i].owner # Zero /\ ~coupons[i].isUsed) =>
                LET t == createdAt[i].time
                    d == createdAt[i].days
                IN  /\ isCouponValid(i) <=> now <= t + d * 86400
                    /\ ~UseCouponReverts(coupons[i].owner, i) <=> now <= t + d * 86400)
    /\ [][(/\ IsCall
           /\ last'.op = "useCoupon"
           /\ coupons[last'.args[1]].owner = last'.caller
           /\ ~coupons[last'.args[1]].isUsed)
          => (last'.ok <=>
                now <= createdAt[last'.args[1]].time
                         + createdAt[last'.args[1]].days * 86400)]_vars

\* C8 witness: the owner used a coupon at the last second of its validity
C8_Witness ==
    /\ last.op = "useCoupon"
    /\ last.ok
    /\ createdAt[last.args[1]].days = 1
    /\ now = createdAt[last.args[1]].time + 86400

\* the state left by the deployment and scripts/add-initial-liquidity.js:
\* Deployer approved the pool for 500 tokens and added 0.5 native units
\* and 500 tokens
AfterInitialLiquidity ==
    /\ calls = 2
    /\ last = Call("addLiquidity", Deployer, <<WAD \div 2, 500 * WAD>>, TRUE, NoRet)
    /\ allowance[Deployer][Dex] = 0
    /\ balanceOf[Deployer] = 500 * WAD
    /\ balanceOf[Dex] = 500 * WAD
    /\ balanceOf[Alice] = 0
    /\ ethLiquidity = WAD \div 2
    /\ tokenLiquidity = 500 * WAD
    /\ exchangeRate = 1000 * WAD
    /\ feePercentage = 100

\* C9. End-to-end scenario: after deployment, approve(pool, 500) and
\* addLiquidity with 0.5 native units and 500 tokens, a second account's
\* swapEthForTokens with 0.01 native units succeeds; that account receives
\* exactly 9.9 tokens, ethLiquidity becomes 0.51 and tokenLiquidity 490.1.
C9_EndToEnd ==
    [][(/\ AfterInitialLiquidity
        /\ IsCall
        /\ last'.op = "swapEthForTokens"
        /\ last'.caller = Alice
        /\ last'.args[1] = WAD \div 100)
       => (/\ last'.ok
           /\ balanceOf'[Alice] = balanceOf[Alice] + (99 * WAD) \div 10
           /\ ethLiquidity' = (51 * WAD) \div 100
           /\ tokenLiquidity' = (4901 * WAD) \div 10)]_vars

\* C9 witness: the state after the scenario's swap
C9_Witness ==
    /\ calls = 3
    /\ last = Call("swapEthForTokens", Alice, <<WAD \div 100>>, TRUE, NoRet)
    /\ balanceOf[Alice] = (99 * WAD) \div 10
    /\ balanceOf[Dex] = (4901 * WAD) \div 10
    /\ balanceOf[Deployer] = 500 * WAD
    /\ ethLiquidity = (51 * WAD) \div 100
    /\ tokenLiquidity = (4901 * WAD) \div 10

\* C10. Coupon platform fee, as documented: a successful createCoupon charges
\* the caller a 1% platform fee on top of the burned tokenAmount, the fee goes
\* to the contract owner, and tokensBurned records tokenAmount without the fee.
C10_CouponPlatformFee ==
    [][(IsCall /\ last'.op = "createCoupon" /\ last'.ok) =>
        LET c == last'.caller
            tokenAmount == last'.args[1]
            fee == tokenAmount \div 100
        IN  /\ coupons'[last'.ret[1]].tokensBurned = tokenAmount
            /\ totalBurned' = totalBurned + tokenAmount
            /\ c # ledgerOwner =>
                 /\ balanceOf'[c] = balanceOf[c] - tokenAmount - fee
                 /\ balanceOf'[ledgerOwner] = balanceOf[ledgerOwner] + fee]_vars

\* C11. Liquidity counters never exceed real reserves: in every state reachable
\* by pool and ledger operations (direct transfers and mints to the pool
\* included), ethLiquidity is at most the pool's native balance and
\* tokenLiquidity at most the pool's token balance.
C11_CountersWithinReserves ==
    /\ ethLiquidity <= ethBalance[Dex]
    /\ tokenLiquidity <= balanceOf[Dex]

\* C11 witness: the pool holds liquidity and then received tokens outside
\* addLiquidity, so its token balance is strictly above the counter
C11_Witness ==
    /\ last.op \in {"transfer", "earnTokens"}
    /\ last.ok
    /\ ethLiquidity > 0
    /\ tokenLiquidity > 0
    /\ balanceOf[Dex] > tokenLiquidity

\* C12. Positive emission parameters, as specified: emissionRate > 0 and
\* unitValue > 0 in every reachable state, and setUnitValue(0) is rejected, so
\* that amountSpent / unitValue never divides by zero.
C12_PositiveEmissionParameters ==
    /\ [](emissionRate > 0 /\ unitValue > 0)
    /\ [][(IsCall /\ last'.op = "setUnitValue" /\ last'.args[1] = 0)
          => (~last'.ok /\ UNCHANGED storage)]_vars

\* C13. Fee cap: feePercentage <= 1000 basis points in every reachable pool
\* state; a pool constructed with a fee above 1000 does not exist, and
\* updateFee with a value above 1000 reverts and leaves feePercentage unchanged.
C13_FeeCap ==
    /\ [](feePercentage <= 1000)
    /\ [](last.op = "constructor" => last.args[2] <= 1000)
    /\ [][(IsCall /\ last'.op = "updateFee" /\ last'.args[1] > 1000)
          => (~last'.ok /\ feePercentage' = feePercentage)]_vars

\* C13 witness: the fee is at the cap and the owner's updateFee(1001) was
\* rejected
C13_Witness ==
    /\ last.op = "updateFee"
    /\ last.args[1] = 1001
    /\ last.caller = dexOwner
    /\ ~last.ok
    /\ feePercentage = 1000

\* the keys of the coupons mapping that hold a coupon
Created == {i \in CouponIds : coupons[i].owner # Zero}

\* C14. Sequential coupon ids: the k-th successful createCoupon since
\* deployment, over all callers, returns id k, starting at 1; a reverted
\* createCoupon consumes no id; no id is given twice; a stored coupon's id
\* field is the key under which it is stored.
C14_SequentialCouponIds ==
    /\ [](\A i \in Created : coupons[i].id = i)
    /\ [](Created = 1..Cardinality(Created))
    /\ [][(IsCall /\ last'.op = "createCoupon") =>
            IF last'.ok
            THEN /\ last'.ret = <<Cardinality(Created) + 1>>
                 /\ last'.ret[1] \notin Created
                 /\ Created' = Created \cup {last'.ret[1]}
                 /\ \A i \in Created : coupons'[i] = coupons[i]
            ELSE /\ Created' = Created
                 /\ nextCouponId' = nextCouponId]_vars

\* C14 witness: two callers created one coupon each; the second call
\* returned id 2
C14_Witness ==
    /\ last.op = "createCoupon"
    /\ last.ok
    /\ last.ret = <<2>>
    /\ Created = {1, 2}
    /\ coupons[1].owner # coupons[2].owner

\* C16. Monotone supply counters: across every transition, whatever the
\* operation and the caller, successful or reverted, totalMinted and
\* totalBurned never decrease.
C16_MonotoneCounters ==
    [][/\ totalMinted' >= totalMinted
       /\ totalBurned' >= totalBurned]_vars

\* C16 witness: after a mint had raised totalMinted, a coupon burn raised
\* totalBurned
C16_Witness ==
    /\ last.op = "createCoupon"
    /\ last.ok
    /\ totalBurned = last.args[1]
    /\ totalMinted > initialSupply

C18_CreateCouponValidation ==
    [][(IsCall /\ last'.op = "createCoupon") =>
        LET c == last'.caller
            tokenAmount == last'.args[1]
            discountPercent == last'.args[2]
            validityDays == last'.args[4]
        IN  /\ last'.ok <=>
                 /\ tokenAmount > 0
                 /\ 1 <= discountPercent /\ discountPercent <= 100
                 /\ 1 <= validityDays /\ validityDays <= 365
                 /\ balanceOf[c] >= tokenAmount
            /\ ~last'.ok =>
                 /\ balanceOf'[c] = balanceOf[c]
                 /\ totalBurned' = totalBurned
                 /\ totalSupply' = totalSupply
                 /\ nextCouponId' = nextCouponId
                 /\ coupons' = coupons
                 /\ userCoupons'[c] = getUserCoupons(c)]_vars

\* C18 witness: a caller with enough tokens asked for a 101% discount and was
\* rejected
C18_Witness ==
    /\ last.op = "createCoupon"
    /\ ~last.ok
    /\ last.args[2] = 101
    /\ last.args[1] > 0
    /\ balanceOf[last.caller] >= last.args[1]

C20_UseCoupon ==
    [][(IsCall /\ last'.op = "useCoupon") =>
        LET c == last'.caller
            id == last'.args[1]
        IN  /\ last'.ok <=>
                 /\ coupons[id].owner = c
                 /\ coupons[id].isUsed = FALSE
                 /\ now <= coupons[id].expiryTime
            /\ last'.ok =>
                 /\ coupons' = [coupons EXCEPT ![id].isUsed = TRUE]
                 /\ UNCHANGED <<balanceOf, allowance, totalSupply, totalMinted,
                                totalBurned, nextCouponId, userCoupons, ledgerOwner,
                                emissionRate, unitValue, dexVars, ethBalance>>
            /\ ~last'.ok => UNCHANGED storage
            /\ id \notin Created => ~last'.ok]_vars

\* C20 witness: the owner tried to use an unexpired coupon a second time and
\* was rejected
C20_Witness ==
    /\ last.op = "useCoupon"
    /\ ~last.ok
    /\ coupons[last.args[1]].owner = last.caller
    /\ coupons[last.args[1]].isUsed
    /\ now <= coupons[last.args[1]].expiryTime

\* the pool's functions that change its state
PoolMutators ==
    {"swapEthForTokens", "swapTokensForEth", "addLiquidity", "removeLiquidity",
     "emergencyWithdraw"}

\* C15. Reentrancy interlock, as documented: every state-mutating pool
\* function is protected by the reentrancy guard, so while one of them is
\* paying a recipient, a call of any of them from the recipient's callback
\* reverts.
C15_ReentrancyInterlock ==
    [][(IsCall /\ callback # Zero /\ last'.op \in PoolMutators)
       => (~last'.ok /\ UNCHANGED storage)]_vars

\* the ids that a successful createCoupon has returned so far
Returned == {i \in CouponIds : createdAt[i] # NoCreation}

\* C21. isCouponValid on unknown ids: for every id that no successful
\* createCoupon has returned (0 and the ids above the number of coupons
\* created included) isCouponValid is false at every time; for a created id
\* it is exactly !isUsed && now <= expiryTime.
C21_ValidityOfUnknownIds ==
    \A i \in CouponIds :
        IF i \in Returned
        THEN isCouponValid(i) <=> (~coupons[i].isUsed /\ now <= coupons[i].expiryTime)
        ELSE ~isCouponValid(i)

\* C21 witness: one coupon exists and is valid, time has moved on, and the
\* ids 0 and 2 were never returned
C21_Witness ==
    /\ Returned = {1}
    /\ isCouponValid(1)
    /\ now > T0
    /\ ~isCouponValid(0)
    /\ ~isCouponValid(2)

\* C22. Preview equals execution: in any pool state and for every input x, a
\* successful swapEthForTokens with value x gives the caller exactly
\* calculateSwap(x, true).outputAmount tokens, a successful swapTokensForEth(x)
\* gives the caller exactly calculateSwap(x, false).outputAmount native
\* currency, and calculateSwap itself changes no pool or ledger state.
C22_PreviewEqualsExecution ==
    [][/\ (IsCall /\ last'.op = "swapEthForTokens" /\ last'.ok) =>
            balanceOf'[last'.caller] - balanceOf[last'.caller]
                = calculateSwap(last'.args[1], TRUE).outputAmount
       /\ (IsCall /\ last'.op = "swapTokensForEth" /\ last'.ok) =>
            ethBalance'[last'.caller] - ethBalance[last'.caller]
                = calculateSwap(last'.args[1], FALSE).outputAmount
       /\ (IsCall /\ last'.op = "calculateSwap") =>
            UNCHANGED <<storage, guardVars, now>>]_vars

\* C22 witness: Alice sold tokens for native currency at a rate and fee where
\* the fee is not rounded away
C22_Witness ==
    /\ last.op = "swapTokensForEth"
    /\ last.ok
    /\ last.caller = Alice
    /\ SwapEthFee(last.args[1]) > 0
    /\ ethToSend(last.args[1]) > 0

\* C23 as claimed. Phantom liquidity from swap fees: after a successful
\* swapEthForTokens with a non-zero fee, tokenLiquidity exceeds the token
\* balance the pool holds.
C23_PhantomLiquidity ==
    [][(/\ IsCall
        /\ last'.op = "swapEthForTokens"
        /\ last'.ok
        /\ SwapTokenFee(last'.args[1]) > 0)
       => tokenLiquidity' > balanceOf'[Dex]]_vars

\* C23 as amended. After a successful swapEthForTokens with a non-zero fee the
\* fee stays in the pool, counted and held alike: tokenLiquidity and the
\* pool's token balance both fall by exactly tokensToSend = tokenAmount - fee,
\* so the counter does not drift from the balance and does not exceed it.
C23_FeeStaysBacked ==
    [][(/\ IsCall
        /\ last'.op = "swapEthForTokens"
        /\ last'.ok
        /\ SwapTokenFee(last'.args[1]) > 0)
       => (/\ tokenLiquidity - tokenLiquidity'
                = SwapTokenAmount(last'.args[1]) - SwapTokenFee(last'.args[1])
           /\ balanceOf[Dex] - balanceOf'[Dex]
                = SwapTokenAmount(last'.args[1]) - SwapTokenFee(last'.args[1])
           /\ tokenLiquidity' <= balanceOf'[Dex])]_vars

\* C23 witness: a swap with a non-zero fee was paid and the counter equals
\* the tokens the pool holds
C23_Witness ==
    /\ last.op = "swapEthForTokens"
    /\ last.ok
    /\ SwapTokenFee(last.args[1]) > 0
    /\ tokenLiquidity < 500 * WAD
    /\ tokenLiquidity = balanceOf[Dex]

C25_EmergencyWithdraw ==
    [][(IsCall /\ last'.op = "emergencyWithdraw" /\ last'.caller = dexOwner) =>
        /\ last'.ok
        /\ ethBalance'[dexOwner] = ethBalance[dexOwner] + ethBalance[Dex]
        /\ balanceOf'[dexOwner] = balanceOf[dexOwner] + balanceOf[Dex]
        /\ ethBalance'[Dex] = 0
        /\ balanceOf'[Dex] = 0
        /\ ethLiquidity' = 0
        /\ tokenLiquidity' = 0
        /\ UNCHANGED <<exchangeRate, feePercentage>>]_vars

\* C25 witness: the owner approved 1000 tokens, added 10 of them with native
\* currency, then withdrew everything
C25_Witness ==
    /\ last.op = "emergencyWithdraw"
    /\ last.ok
    /\ calls = 3
    /\ allowance[Deployer][Dex] = 990 * WAD
    /\ balanceOf[Dex] = 0
    /\ ethBalance[Dex] = 0
    /\ ethLiquidity = 0
    /\ tokenLiquidity = 0

\* C26. removeLiquidity(ethAmount, tokenAmount) called by the owner succeeds
\* if and only if ethAmount <= ethLiquidity and tokenAmount <= tokenLiquidity.
\* On success both counters fall by exactly the requested amounts and the
\* owner receives exactly those amounts of native currency and tokens. If
\* either amount exceeds its counter the call reverts and no counter and no
\* balance changes: one asset is never withdrawn without the other.
C26_RemoveLiquidity ==
    [][(IsCall /\ last'.op = "removeLiquidity" /\ last'.caller = dexOwner) =>
        LET _ethAmount == last'.args[1]
            _tokenAmount == last'.args[2]
            fits == _ethAmount <= ethLiquidity /\ _tokenAmount <= tokenLiquidity
        IN  /\ last'.ok <=> fits
            /\ last'.ok =>
                  /\ ethLiquidity' = ethLiquidity - _ethAmount
                  /\ tokenLiquidity' = tokenLiquidity - _tokenAmount
                  /\ ethBalance'[dexOwner] = ethBalance[dexOwner] + _ethAmount
                  /\ balanceOf'[dexOwner] = balanceOf[dexOwner] + _tokenAmount
                  /\ ethBalance'[Dex] = ethBalance[Dex] - _ethAmount
                  /\ balanceOf'[Dex] = balanceOf[Dex] - _tokenAmount
            /\ ~last'.ok => UNCHANGED storage]_vars

\* C26 witness: the owner asked for native currency the pool counts and for
\* more tokens than it counts, and the call was refused with the pool intact
C26_Witness ==
    /\ last.op = "removeLiquidity"
    /\ ~last.ok
    /\ last.caller = dexOwner
    /\ last.args[1] > 0
    /\ last.args[1] <= ethLiquidity
    /\ last.args[2] > tokenLiquidity
    /\ tokenLiquidity > 0

\* C27 as claimed. earnTokens zero mint: when the owner calls
\* earnTokens(customer, amountSpent) with amountSpent < unitValue and
\* unitValue > 0 the call does not revert, mints 0 tokens and leaves the
\* customer's balance, totalSupply and totalMinted unchanged; for
\* amountSpent >= unitValue it mints
\* floor(amountSpent / unitValue) * emissionRate * 10^18 to customer and adds
\* the same amount to totalMinted.
C27_EarnTokensAnyCustomer ==
    [][(/\ IsCall
        /\ last'.op = "earnTokens"
        /\ last'.caller = ledgerOwner
        /\ unitValue > 0) =>
        LET customer == last'.args[1]
            amountSpent == last'.args[2]
            minted == IF amountSpent < unitValue THEN 0
                      ELSE (amountSpent \div unitValue) * emissionRate * WAD
        IN  /\ last'.ok
            /\ balanceOf'[customer] = balanceOf[customer] + minted
            /\ totalSupply' = totalSupply + minted
            /\ totalMinted' = totalMinted + minted]_vars

\* C27 as amended. The same, for a customer that is not the zero address:
\* the mint to the zero address reverts whatever the amount.
C27_EarnTokens ==
    [][(/\ IsCall
        /\ last'.op = "earnTokens"
        /\ last'.caller = ledgerOwner
        /\ unitValue > 0
        /\ last'.args[1] # Zero) =>
        LET customer == last'.args[1]
            amountSpent == last'.args[2]
            minted == IF amountSpent < unitValue THEN 0
                      ELSE (amountSpent \div unitValue) * emissionRate * WAD
        IN  /\ last'.ok
            /\ balanceOf'[customer] = balanceOf[customer] + minted
            /\ totalSupply' = totalSupply + minted
            /\ totalMinted' = totalMinted + minted]_vars

\* C27 witness: the owner's earnTokens for a positive amount below unitValue
\* went through at a positive emission rate and minted nothing
C27_Witness ==
    /\ last.op = "earnTokens"
    /\ last.ok
    /\ last.args[1] = Alice
    /\ last.args[2] > 0
    /\ last.args[2] < unitValue
    /\ emissionRate > 0
    /\ balanceOf[Alice] = 0
    /\ totalMinted = initialSupply
    /\ totalSupply = initialSupply

\* C28. No round-trip profit, exchangeRate and feePercentage held fixed:
\* swapping v native currency for tokens and swapping all the tokens received
\* back returns at most v, and swapping t tokens for native currency and
\* swapping that back returns at most t tokens; so also at feePercentage = 0,
\* since both conversions round down. Stated of the quoted amounts for every
\* input, and of two consecutive executed swaps of one caller.
C28_NoRoundTripProfit ==
    /\ [](/\ \A v \in SwapInputs :
                calculateSwap(calculateSwap(v, TRUE).outputAmount, FALSE).outputAmount <= v
          /\ \A t \in SwapInputs \cup TokenAmounts :
                calculateSwap(calculateSwap(t, FALSE).outputAmount, TRUE).outputAmount <= t)
    /\ [][/\ (/\ IsCall
              /\ last.op = "swapEthForTokens" /\ last.ok
              /\ last'.op = "swapTokensForEth" /\ last'.ok
              /\ last'.caller = last.caller
              /\ last'.args[1] = tokensToSend(last.args[1]))
             => ethBalance'[last.caller] - ethBalance[last.caller] <= last.args[1]
          /\ (/\ IsCall
              /\ last.op = "swapTokensForEth" /\ last.ok
              /\ last'.op = "swapEthForTokens" /\ last'.ok
              /\ last'.caller = last.caller
              /\ last'.args[1] = ethToSend(last.args[1]))
             => balanceOf'[last.caller] - balanceOf[last.caller] <= last.args[1]]_vars

\* C28 witness: without a fee Alice paid half a unit of native currency for
\* tokens, swapped all of them back and holds less than she started with
C28_Witness ==
    /\ feePercentage = 0
    /\ last.op = "swapTokensForEth"
    /\ last.ok
    /\ last.caller = Alice
    /\ last.args[1] > 0
    /\ balanceOf[Alice] = 0
    /\ ethBalance[Alice] < WAD
    /\ ethBalance[Alice] > WAD \div 2

\* C29. Positive exchange rate: exchangeRate > 0 in every reachable pool
\* state, because the constructor and updateExchangeRate reject 0; so the
\* division by exchangeRate in swapTokensForEth and calculateSwap(_, false)
\* never divides by zero.
C29_PositiveExchangeRate ==
    /\ [](exchangeRate > 0)
    /\ [](last.op = "constructor" => last.args[1] > 0)
    /\ [][(IsCall /\ last'.op = "updateExchangeRate" /\ last'.args[1] = 0)
          => (~last'.ok /\ exchangeRate' = exchangeRate)]_vars

\* C29 witness: the owner's updateExchangeRate(0) was rejected after the
\* owner had changed the rate, and the rate is still the one set before
C29_Witness ==
    /\ last.op = "updateExchangeRate"
    /\ last.args[1] = 0
    /\ last.caller = dexOwner
    /\ ~last.ok
    /\ calls >= 2
    /\ exchangeRate = 333

\* C30. Coupon list consistency: in every reachable state, for every address
\* a, getUserCoupons(a) lists exactly the ids of the coupons whose owner is a,
\* each id once and in increasing order; a coupon's owner, discountPercent,
\* tokensBurned and expiryTime never change after creation, and no coupon is
\* ever removed from the registry or from a list.
C30_CouponListConsistency ==
    /\ [](\A a \in Holders :
            LET list == getUserCoupons(a)
            IN  /\ {list[k] : k \in 1..Len(list)}
                      = {i \in Created : coupons[i].owner = a}
                /\ \A j, k \in 1..Len(list) : j < k => list[j] < list[k])
    /\ [][/\ \A i \in Created :
                /\ coupons'[i].owner = coupons[i].owner
                /\ coupons'[i].discountPercent = coupons[i].discountPercent
                /\ coupons'[i].tokensBurned = coupons[i].tokensBurned
                /\ coupons'[i].expiryTime = coupons[i].expiryTime
          /\ \A a \in Holders :
                /\ Len(userCoupons'[a]) >= Len(userCoupons[a])
                /\ SubSeq(userCoupons'[a], 1, Len(userCoupons[a])) = userCoupons[a]]_vars

\* C30 witness: two holders created one coupon each, the contract's owner
\* first, and each list holds its holder's coupon
C30_Witness ==
    /\ getUserCoupons(Deployer) = <<1>>
    /\ getUserCoupons(Alice) = <<2>>
    /\ coupons[1].owner = Deployer
    /\ coupons[2].owner = Alice

=============================================================================
